---- MODULE Spec2Model ----
(***************************************************************************)
(* Model of my_youtube_music_playlists_importer.py: main() and             *)
(* import_playlists_from_json(), the sequential import of an export file   *)
(* into a remote library, with every remote call able to succeed or raise. *)
(*                                                                         *)
(* Strings are sequences of one-character strings, so that lower(),        *)
(* strip(), ', '.join() and the sanitizer are computed, not assumed.       *)
(* The entries of the export file are immutable once loaded; the model     *)
(* draws each entry (and each track) when the loop reaches it.             *)
(***************************************************************************)
EXTENDS Integers, Sequences, FiniteSets, TLC

\* ------------------------------------------------------------------ bounds
\* The export file holds at most MaxPlaylists entries and, in all of them
\* together, at most MaxTracks tracks.
MaxPlaylists == 2
MaxTracks == 2
\* The sanitizer alone is run on every string of at most MaxLen characters.
MaxLen == 3

\* ----------------------------------------------------------------- strings
\* unicodedata.category(c), for the characters of the model's alphabet.
\* A category is the pair of its two letters: "Ll" is <<"L", "l">>.
Category(c) ==
    CASE c \in {"a", "b", "c", "q", "s", "x", "y", "z"} -> <<"L", "l">>
      [] c \in {"A", "B", "C", "Q", "S", "X", "Y", "Z"} -> <<"L", "u">>
      [] c \in {"1", "2"} -> <<"N", "d">>
      [] c = " " -> <<"Z", "s">>
      [] c = "\t" -> <<"C", "c">>
      [] c \in {"$"} -> <<"S", "c">>
      [] c \in {"<", ">", "|", "+"} -> <<"S", "m">>
      [] c \in {"^"} -> <<"S", "k">>
      [] c \in {"\\", "/", "*", "?", ":", "\"", ",", "!"} -> <<"P", "o">>
      [] c = "-" -> <<"P", "d">>
      [] OTHER -> <<"C", "n">>

\* str.lower() on one character.
LowerChar(c) ==
    CASE c = "A" -> "a" [] c = "B" -> "b" [] c = "C" -> "c" [] c = "Q" -> "q"
      [] c = "S" -> "s" [] c = "X" -> "x" [] c = "Y" -> "y" [] c = "Z" -> "z"
      [] OTHER -> c

\* str.lower()
Lower(s) == [i \in 1..Len(s) |-> LowerChar(s[i])]

\* c.isspace(), the characters str.strip() removes at both ends.
IsSpace(c) == c \in {" ", "\t"}

RECURSIVE LStrip(_)
LStrip(s) == IF s # <<>> /\ IsSpace(Head(s)) THEN LStrip(Tail(s)) ELSE s

RECURSIVE RStrip(_)
RStrip(s) ==
    IF s # <<>> /\ IsSpace(s[Len(s)]) THEN RStrip(SubSeq(s, 1, Len(s) - 1)) ELSE s

\* str.strip()
Strip(s) == RStrip(LStrip(s))

\* is_valid_char of sanitize_playlist_name
is_valid_char(c) ==
    LET cat == Category(c) IN ~(cat[1] = "C" \/ cat[1] = "S")

\* The character class of re.sub(r'[\\/*?:"<>|]', '', name)
InvalidFilenameChar(c) == c \in {"\\", "/", "*", "?", ":", "\"", "<", ">", "|"}

\* sanitize_playlist_name with the strip of line 122 done first.
sanitize_playlist_name_StripFirst(nm) ==
    LET KeepFilenameChar(c) == ~InvalidFilenameChar(c)
    IN  SelectSeq(SelectSeq(Strip(nm), is_valid_char), KeepFilenameChar)

\* Lines 119-122: drop the characters of category C* and S*, then those of the
\* character class, then strip.
sanitize_playlist_name(nm) ==
    LET valid == SelectSeq(nm, is_valid_char)
        KeepFilenameChar(c) == ~InvalidFilenameChar(c)
    IN  Strip(SelectSeq(valid, KeepFilenameChar))

RECURSIVE Join(_)
\* ', '.join(names)
Join(names) ==
    IF names = <<>> THEN <<>>
    ELSE IF Len(names) = 1 THEN names[1]
    ELSE names[1] \o <<",", " ">> \o Join(Tail(names))


\* -------------------------------------------------------------- input sets
\* Python's None, for playlist_id (line 162) and for `existing` (line 161).
NoId == 0
NoneRef == [title |-> <<>>, playlistId |-> NoId]

\* Playlist names of the export file: two that sanitize to the same name up to
\* case ("Ab" and " aB$*"), and one that does not.
PlaylistNames == { <<"A", "b">>, <<" ", "a", "B", "$", "*">>, <<"c">> }

\* The entries json.load can give: playlist_name or tracks may be absent.
PlaylistEntries ==
    { [has_name |-> TRUE, playlist_name |-> n, has_tracks |-> TRUE, n_tracks |-> k] :
          n \in PlaylistNames, k \in 0..MaxTracks }
    \cup { [has_name |-> TRUE, playlist_name |-> n, has_tracks |-> FALSE, n_tracks |-> 0] :
          n \in PlaylistNames }
    \cup { [has_name |-> FALSE, playlist_name |-> <<>>, has_tracks |-> TRUE, n_tracks |-> 0] }

\* The tracks of an entry: name or artist may be absent.
TrackEntries ==
    { [has_name |-> TRUE, name |-> <<"S">>, has_artist |-> TRUE,
       artist |-> <<"X", ",", " ", "y">>],
      [has_name |-> TRUE, name |-> <<"q">>, has_artist |-> TRUE, artist |-> <<"z">>],
      [has_name |-> FALSE, name |-> <<>>, has_artist |-> TRUE, artist |-> <<"z">>],
      [has_name |-> TRUE, name |-> <<"q">>, has_artist |-> FALSE, artist |-> <<>>] }

\* The values YT_API_MAX_RETRIES may be set to (line 68): none, no retry, and
\* up to the default of three attempts.
RetryOptions == {0, 1, 2, 3}

\* What get_library_playlists can return: the library before the run.
LibraryPlaylists ==
    LET p1 == [title |-> <<"A", "B">>, playlistId |-> 1]
        p2 == [title |-> <<"a", "b">>, playlistId |-> 2]
    IN  { <<>>, <<p1, p2>> }

SnapshotIds == {1, 2}

VideoIds == {1, 2}

\* What get_playlist(...).get('tracks', []) can return for a playlist of the
\* library; a playlist created by this run has no items yet.
PlaylistItems(id) ==
    LET i1 == [videoId |-> 1, title |-> <<"s">>,
               artists |-> << [name |-> <<"x">>], [name |-> <<"Y">>] >>]
    IN  IF id \in SnapshotIds THEN { <<>>, <<i1>> } ELSE { <<>> }

\* ------------------------------------------------------------------- state
VARIABLES
    file_state,                 \* the export file: "ok", "missing", "invalid"
    allow_duplicates, delete_if_exists, api_max_retries,
    pc, exc,                    \* position in the program; the exception raised
    n_playlists, pi,            \* len(playlists); entries of it completed
    playlist,                   \* the loop variable of line 156
    existing_playlists,         \* line 154
    name, existing, playlist_id, current_tracks,
    ti, track,                  \* tracks of the entry completed; loop variable of 193
    video_id, attempt,
    total_playlists_created, total_playlists_existing, total_playlists_deleted,
    total_tracks_success, total_tracks_failed, total_tracks_skipped_duplicates,
    plog,                       \* history: remote calls for the current entry
    tlog,                       \* history: remote calls and sleeps for the current track
    created_names,              \* history: names given to create_playlist
    deleted_ids,                \* history: ids given to delete_playlist
    add_issued,                 \* history: add_playlist_items was called
    any_failure,                \* history: some remote call raised
    tracks_read,                \* history: tracks of the file read so far
    entry0,                     \* history: pi and the counters when the entry began
    track0,                     \* history: the track counters when the track began
    skipped_entries,            \* history: entries left by the continue of line 174
    tracks_due,                 \* history: tracks of the entries that reached line 185
    adds_ok,                    \* history: add_playlist_items calls that returned
    fetched,                    \* history: what get_playlist gave for the entry
    entry_added,                \* history: video ids inserted for the entry, in order
    raw_name, sanitized, resanitized   \* sanitize_playlist_name alone: argument, results

options == <<file_state, allow_duplicates, delete_if_exists, api_max_retries>>
playlist_counters ==
    <<total_playlists_created, total_playlists_existing, total_playlists_deleted>>
track_counters ==
    <<total_tracks_success, total_tracks_failed, total_tracks_skipped_duplicates>>
playlist_locals == <<playlist, name, existing, playlist_id, current_tracks>>
track_locals == <<ti, track, video_id, attempt>>
marks == <<tracks_read, entry0, track0>>
tallies == <<skipped_entries, tracks_due, adds_ok, fetched, entry_added>>
history == <<plog, tlog, created_names, deleted_ids, add_issued, any_failure, marks,
             tallies>>
sanitizer == <<raw_name, sanitized, resanitized>>
vars == <<options, sanitizer, pc, exc, n_playlists, pi, existing_playlists, playlist_locals,
          track_locals, playlist_counters, track_counters, history>>

\* One entry of the histories.
Ev(op, id, vid, res, secs) ==
    [op |-> op, id |-> id, vid |-> vid, res |-> res, secs |-> secs]

NoTrack == [has_name |-> FALSE, name |-> <<>>, has_artist |-> FALSE, artist |-> <<>>]
NoPlaylist == [has_name |-> FALSE, playlist_name |-> <<>>, has_tracks |-> FALSE, n_tracks |-> 0]

\* The locals of one iteration of the loop of line 156 are dead at its end: the
\* next iteration assigns each before reading it (name 157, existing 161,
\* playlist_id 162, current_tracks 188/191, track 193, video_id 204, attempt
\* 222). They revert to their initial values.
IterationLocalsDead ==
    /\ playlist' = NoPlaylist
    /\ name' = <<>>
    /\ existing' = NoneRef
    /\ playlist_id' = NoId
    /\ current_tracks' = <<>>
    /\ ti' = 0
    /\ track' = NoTrack
    /\ video_id' = 0
    /\ attempt' = 0

Init ==
    /\ file_state \in {"ok", "missing", "invalid"}
    /\ allow_duplicates \in BOOLEAN
    /\ delete_if_exists \in BOOLEAN
    /\ api_max_retries \in RetryOptions
    /\ pc = "main"
    /\ exc = "none"
    /\ n_playlists = 0
    /\ pi = 0
    /\ playlist = NoPlaylist
    /\ existing_playlists = <<>>
    /\ name = <<>>
    /\ existing = NoneRef
    /\ playlist_id = NoId
    /\ current_tracks = <<>>
    /\ ti = 0
    /\ track = NoTrack
    /\ video_id = 0
    /\ attempt = 0
    /\ total_playlists_created = 0
    /\ total_playlists_existing = 0
    /\ total_playlists_deleted = 0
    /\ total_tracks_success = 0
    /\ total_tracks_failed = 0
    /\ total_tracks_skipped_duplicates = 0
    /\ plog = <<>>
    /\ tlog = <<>>
    /\ created_names = <<>>
    /\ deleted_ids = <<>>
    /\ add_issued = FALSE
    /\ any_failure = FALSE
    /\ tracks_read = 0
    /\ entry0 = [pi |-> 0, created |-> 0, existing |-> 0, deleted |-> 0,
                 success |-> 0, failed |-> 0, skipped |-> 0]
    /\ track0 = [success |-> 0, failed |-> 0, skipped |-> 0]
    /\ skipped_entries = 0
    /\ tracks_due = 0
    /\ adds_ok = 0
    /\ fetched = <<>>
    /\ entry_added = <<>>
    /\ raw_name = <<>>
    /\ sanitized = <<>>
    /\ resanitized = <<>>


\* ------------------------------------------------------------------- main()
\* Lines 329-333: the playlists file must exist, else sys.exit(1).
CheckPlaylistsFile ==
    /\ pc = "main"
    /\ pc' = IF file_state = "missing" THEN "exit1" ELSE "init_client"
    /\ UNCHANGED <<options, sanitizer,
                   exc, n_playlists, pi, existing_playlists, playlist_locals,
                   track_locals, playlist_counters, track_counters, history>>

\* Lines 336-340: ytmusicapi.setup and YTMusic(...) succeed.
InitClient ==
    /\ pc = "init_client"
    /\ pc' = "load"
    /\ UNCHANGED <<options, sanitizer,
                   exc, n_playlists, pi, existing_playlists, playlist_locals,
                   track_locals, playlist_counters, track_counters, history>>

\* Lines 341-343: they raise, and main exits with status 1.
InitClientFails ==
    /\ pc = "init_client"
    /\ pc' = "exit1"
    /\ UNCHANGED <<options, sanitizer,
                   exc, n_playlists, pi, existing_playlists, playlist_locals,
                   track_locals, playlist_counters, track_counters, history>>

\* ------------------------------------------------ import_playlists_from_json
\* Lines 144-152: the file is read and parsed, the counters start at zero.
Load ==
    /\ pc = "load"
    /\ file_state = "ok"
    /\ n_playlists' \in 0..MaxPlaylists
    /\ pc' = "list"
    /\ UNCHANGED <<options, sanitizer,
                   exc, pi, existing_playlists, playlist_locals, track_locals,
                   playlist_counters, track_counters, history>>

\* Lines 144-145: open or json.load raises (unreadable, not JSON).
LoadFails ==
    /\ pc = "load"
    /\ file_state = "invalid"
    /\ pc' = "raised"
    /\ exc' = "load"
    /\ UNCHANGED <<options, sanitizer,
                   n_playlists, pi, existing_playlists, playlist_locals,
                   track_locals, playlist_counters, track_counters, history>>

\* Line 154: the snapshot of the library.
GetLibraryPlaylists ==
    /\ pc = "list"
    /\ existing_playlists' \in LibraryPlaylists
    /\ pc' = "for_playlist"
    /\ UNCHANGED <<options, sanitizer,
                   exc, n_playlists, pi, playlist_locals, track_locals,
                   playlist_counters, track_counters, history>>

\* Line 154 raises: nothing catches it.
GetLibraryPlaylistsFails ==
    /\ pc = "list"
    /\ pc' = "raised"
    /\ exc' = "get_library_playlists"
    /\ any_failure' = TRUE
    /\ UNCHANGED <<options, sanitizer, tallies,
                   n_playlists, pi, existing_playlists, playlist_locals,
                   track_locals, playlist_counters, track_counters, plog, tlog,
                   created_names, marks, deleted_ids, add_issued>>

\* Lines 252-253: the loop of line 156 is over.
Return ==
    /\ pc = "for_playlist"
    /\ pi = n_playlists
    /\ pc' = "returned"
    /\ UNCHANGED <<options, sanitizer,
                   exc, n_playlists, pi, existing_playlists, playlist_locals,
                   track_locals, playlist_counters, track_counters, history>>

\* Line 157: playlist['playlist_name'] of an entry without that key.
PlaylistNameKeyError ==
    /\ pc = "for_playlist"
    /\ pi < n_playlists
    /\ \E p \in PlaylistEntries :
         /\ ~p.has_name
         /\ playlist' = p
    /\ pc' = "raised"
    /\ exc' = "KeyError"
    /\ UNCHANGED <<options, sanitizer,
                   n_playlists, pi, existing_playlists, name, existing,
                   playlist_id, current_tracks, track_locals, playlist_counters,
                   track_counters, history>>

\* Existing with the titles compared as they are.
Existing_CaseSensitive(eps, nm) ==
    LET hits == { i \in 1..Len(eps) : eps[i].title = nm }
    IN  IF hits = {} THEN NoneRef
        ELSE eps[CHOOSE i \in hits : \A j \in hits : i <= j]

\* Line 161: the first playlist of the snapshot whose title equals the name,
\* both lowercased; None when there is none.
Existing(eps, nm) ==
    LET hits == { i \in 1..Len(eps) : Lower(eps[i].title) = Lower(nm) }
    IN  IF hits = {} THEN NoneRef
        ELSE eps[CHOOSE i \in hits : \A j \in hits : i <= j]

\* Reconcile with line 177 taken for a playlist to delete too.
Reconcile_CountsDeleted ==
    /\ pc = "for_playlist"
    /\ pi < n_playlists
    /\ \E p \in PlaylistEntries :
         /\ p.has_name
         /\ p.n_tracks <= MaxTracks - tracks_read
         /\ playlist' = p
         /\ name' = sanitize_playlist_name(p.playlist_name)
    /\ existing' = Existing(existing_playlists, name')
    /\ IF existing' # NoneRef
         THEN /\ playlist_id' = existing'.playlistId
              /\ IF delete_if_exists
                   THEN /\ pc' = "delete"
                        /\ total_playlists_existing' = total_playlists_existing + 1
                   ELSE /\ pc' = "get_playlist"
                        /\ total_playlists_existing' = total_playlists_existing + 1
         ELSE /\ playlist_id' = NoId
              /\ pc' = "create"
              /\ UNCHANGED total_playlists_existing
    /\ plog' = <<>>
    /\ tlog' = <<>>
    /\ entry0' = [pi |-> pi, created |-> total_playlists_created,
                  existing |-> total_playlists_existing,
                  deleted |-> total_playlists_deleted,
                  success |-> total_tracks_success, failed |-> total_tracks_failed,
                  skipped |-> total_tracks_skipped_duplicates]
    /\ fetched' = <<>>
    /\ entry_added' = <<>>
    /\ UNCHANGED <<options, sanitizer, skipped_entries, tracks_due, adds_ok,
                   exc, n_playlists, pi, existing_playlists, current_tracks,
                   track_locals, total_playlists_created, total_playlists_deleted,
                   track_counters, created_names, tracks_read, track0, deleted_ids,
                   add_issued, any_failure>>

\* Lines 156-177, up to the first remote call of the entry: sanitize the name,
\* look it up, and reuse, or go on to delete or to create.
Reconcile ==
    /\ pc = "for_playlist"
    /\ pi < n_playlists
    /\ \E p \in PlaylistEntries :
         /\ p.has_name
         /\ p.n_tracks <= MaxTracks - tracks_read
         /\ playlist' = p
         /\ name' = sanitize_playlist_name(p.playlist_name)
    /\ existing' = Existing(existing_playlists, name')
    /\ IF existing' # NoneRef
         THEN /\ playlist_id' = existing'.playlistId
              /\ IF delete_if_exists
                   THEN /\ pc' = "delete"
                        /\ UNCHANGED total_playlists_existing
                   ELSE /\ pc' = "get_playlist"
                        /\ total_playlists_existing' = total_playlists_existing + 1
         ELSE /\ playlist_id' = NoId
              /\ pc' = "create"
              /\ UNCHANGED total_playlists_existing
    /\ plog' = <<>>
    /\ tlog' = <<>>
    /\ entry0' = [pi |-> pi, created |-> total_playlists_created,
                  existing |-> total_playlists_existing,
                  deleted |-> total_playlists_deleted,
                  success |-> total_tracks_success, failed |-> total_tracks_failed,
                  skipped |-> total_tracks_skipped_duplicates]
    /\ fetched' = <<>>
    /\ entry_added' = <<>>
    /\ UNCHANGED <<options, sanitizer, skipped_entries, tracks_due, adds_ok,
                   exc, n_playlists, pi, existing_playlists, current_tracks,
                   track_locals, total_playlists_created, total_playlists_deleted,
                   track_counters, created_names, tracks_read, track0, deleted_ids,
                   add_issued, any_failure>>

\* DeleteOk with line 179 reading `if not existing:`: no playlist is created
\* after the delete.
DeleteOk_NoCreate ==
    /\ pc = "delete"
    /\ plog' = Append(plog, Ev("delete", playlist_id, 0, "ok", 0))
    /\ deleted_ids' = Append(deleted_ids, playlist_id)
    /\ total_playlists_deleted' = total_playlists_deleted + 1
    /\ playlist_id' = NoId
    /\ pc' = "get_playlist"
    /\ UNCHANGED <<options, sanitizer, tallies,
                   exc, n_playlists, pi, existing_playlists, playlist, name,
                   existing, current_tracks, track_locals, total_playlists_created,
                   total_playlists_existing, track_counters, tlog, created_names,
                   marks, add_issued, any_failure>>

\* Lines 168-171: delete_playlist succeeds.
DeleteOk ==
    /\ pc = "delete"
    /\ plog' = Append(plog, Ev("delete", playlist_id, 0, "ok", 0))
    /\ deleted_ids' = Append(deleted_ids, playlist_id)
    /\ total_playlists_deleted' = total_playlists_deleted + 1
    /\ playlist_id' = NoId
    /\ pc' = "create"
    /\ UNCHANGED <<options, sanitizer, tallies,
                   exc, n_playlists, pi, existing_playlists, playlist, name,
                   existing, current_tracks, track_locals, total_playlists_created,
                   total_playlists_existing, track_counters, tlog, created_names,
                   marks, add_issued, any_failure>>

\* DeleteFails without the continue of line 174: the entry goes on to line 179.
DeleteFails_NoContinue ==
    /\ pc = "delete"
    /\ plog' = Append(plog, Ev("delete", playlist_id, 0, "error", 0))
    /\ deleted_ids' = Append(deleted_ids, playlist_id)
    /\ any_failure' = TRUE
    /\ pc' = "create"
    /\ UNCHANGED <<options, sanitizer, tallies,
                   exc, n_playlists, pi, existing_playlists, playlist_locals,
                   track_locals, playlist_counters, track_counters, tlog,
                   created_names, marks, add_issued>>

\* Lines 168, 172-174: delete_playlist raises; the entry is left (continue).
DeleteFails ==
    /\ pc = "delete"
    /\ plog' = Append(plog, Ev("delete", playlist_id, 0, "error", 0))
    /\ deleted_ids' = Append(deleted_ids, playlist_id)
    /\ any_failure' = TRUE
    /\ pi' = pi + 1
    /\ pc' = "for_playlist"
    /\ IterationLocalsDead
    /\ skipped_entries' = skipped_entries + 1
    /\ UNCHANGED <<options, sanitizer, tracks_due, adds_ok, fetched, entry_added,
                   exc, n_playlists, existing_playlists, playlist_counters,
                   track_counters, tlog, created_names, marks, add_issued>>

\* The id the remote service gives a new playlist: none of the library's.
NewPlaylistId == 3 + Len(created_names)

\* CreateOk without line 183.
CreateOk_NoCount ==
    /\ pc = "create"
    /\ playlist_id' = NewPlaylistId
    /\ plog' = Append(plog, Ev("create", NewPlaylistId, 0, "ok", 0))
    /\ created_names' = Append(created_names, Lower(name))
    /\ pc' = "get_playlist"
    /\ UNCHANGED <<options, sanitizer, tallies,
                   exc, n_playlists, pi, existing_playlists, playlist, name,
                   existing, current_tracks, track_locals, playlist_counters,
                   track_counters, tlog, deleted_ids, marks, add_issued, any_failure>>

\* CreateOk with the new playlist added to existing_playlists.
CreateOk_UpdatesSnapshot ==
    /\ pc = "create"
    /\ playlist_id' = NewPlaylistId
    /\ plog' = Append(plog, Ev("create", NewPlaylistId, 0, "ok", 0))
    /\ created_names' = Append(created_names, Lower(name))
    /\ total_playlists_created' = total_playlists_created + 1
    /\ existing_playlists' =
         Append(existing_playlists, [title |-> name, playlistId |-> NewPlaylistId])
    /\ pc' = "get_playlist"
    /\ UNCHANGED <<options, sanitizer, tallies,
                   exc, n_playlists, pi, playlist, name,
                   existing, current_tracks, track_locals, total_playlists_existing,
                   total_playlists_deleted, track_counters, tlog, deleted_ids, marks,
                   add_issued, any_failure>>

\* Lines 179-183: create_playlist returns the id of the new playlist.
CreateOk ==
    /\ pc = "create"
    /\ playlist_id' = NewPlaylistId
    /\ plog' = Append(plog, Ev("create", NewPlaylistId, 0, "ok", 0))
    /\ created_names' = Append(created_names, Lower(name))
    /\ total_playlists_created' = total_playlists_created + 1
    /\ pc' = "get_playlist"
    /\ UNCHANGED <<options, sanitizer, tallies,
                   exc, n_playlists, pi, existing_playlists, playlist, name,
                   existing, current_tracks, track_locals, total_playlists_existing,
                   total_playlists_deleted, track_counters, tlog, deleted_ids, marks,
                   add_issued, any_failure>>

\* Line 181 raises: nothing catches it.
CreateFails ==
    /\ pc = "create"
    /\ plog' = Append(plog, Ev("create", NoId, 0, "error", 0))
    /\ created_names' = Append(created_names, Lower(name))
    /\ any_failure' = TRUE
    /\ pc' = "raised"
    /\ exc' = "create_playlist"
    /\ UNCHANGED <<options, sanitizer, tallies,
                   n_playlists, pi, existing_playlists, playlist_locals,
                   track_locals, playlist_counters, track_counters, tlog, deleted_ids,
                   marks, add_issued>>

\* Lines 187-188: the items of the playlist, the baseline of the duplicate test.
GetPlaylist ==
    /\ pc = "get_playlist"
    /\ current_tracks' \in PlaylistItems(playlist_id)
    /\ plog' = Append(plog, Ev("get_playlist", playlist_id, 0, "ok", 0))
    /\ ti' = 0
    /\ pc' = "for_track"
    /\ fetched' = current_tracks'
    /\ tracks_due' = tracks_due + playlist.n_tracks
    /\ UNCHANGED <<options, sanitizer, skipped_entries, adds_ok, entry_added,
                   exc, n_playlists, pi, existing_playlists, playlist, name,
                   existing, playlist_id, track, video_id, attempt, playlist_counters,
                   track_counters, tlog, created_names, marks, deleted_ids, add_issued,
                   any_failure>>

\* GetPlaylistFails without the try of line 187: the exception leaves the run.
GetPlaylistFails_Raises ==
    /\ pc = "get_playlist"
    /\ plog' = Append(plog, Ev("get_playlist", playlist_id, 0, "error", 0))
    /\ any_failure' = TRUE
    /\ pc' = "raised"
    /\ exc' = "get_playlist"
    /\ UNCHANGED <<options, sanitizer, tallies, n_playlists, pi, existing_playlists,
                   playlist_locals, track_locals, playlist_counters,
                   track_counters, tlog, created_names, marks, deleted_ids,
                   add_issued>>

\* Lines 188-191: get_playlist raises; the baseline is empty.
GetPlaylistFails ==
    /\ pc = "get_playlist"
    /\ current_tracks' = <<>>
    /\ plog' = Append(plog, Ev("get_playlist", playlist_id, 0, "error", 0))
    /\ any_failure' = TRUE
    /\ ti' = 0
    /\ pc' = "for_track"
    /\ fetched' = <<>>
    /\ tracks_due' = tracks_due + playlist.n_tracks
    /\ UNCHANGED <<options, sanitizer, skipped_entries, adds_ok, entry_added,
                   exc, n_playlists, pi, existing_playlists, playlist, name,
                   existing, playlist_id, track, video_id, attempt, playlist_counters,
                   track_counters, tlog, created_names, marks, deleted_ids,
                   add_issued>>


\* Line 193: playlist['tracks'] of an entry without that key.
TracksKeyError ==
    /\ pc = "for_track"
    /\ ~playlist.has_tracks
    /\ pc' = "raised"
    /\ exc' = "KeyError"
    /\ UNCHANGED <<options, sanitizer,
                   n_playlists, pi, existing_playlists, playlist_locals,
                   track_locals, playlist_counters, track_counters, history>>

\* Line 193: the tracks of the entry are done; on to the next entry.
EndOfTracks ==
    /\ pc = "for_track"
    /\ playlist.has_tracks
    /\ ti = playlist.n_tracks
    /\ pi' = pi + 1
    /\ pc' = "for_playlist"
    /\ IterationLocalsDead
    /\ tlog' = <<>>
    /\ fetched' = <<>>
    /\ entry_added' = <<>>
    /\ UNCHANGED <<options, sanitizer, skipped_entries, tracks_due, adds_ok,
                   exc, n_playlists, existing_playlists, playlist_counters,
                   track_counters, plog, created_names, marks, deleted_ids, add_issued,
                   any_failure>>

\* Line 194: track['name'] or track['artist'] of a track without that key.
TrackKeyError ==
    /\ pc = "for_track"
    /\ playlist.has_tracks
    /\ ti < playlist.n_tracks
    /\ \E t \in TrackEntries :
         /\ ~(t.has_name /\ t.has_artist)
         /\ track' = t
    /\ tlog' = <<>>
    /\ pc' = "raised"
    /\ exc' = "KeyError"
    /\ UNCHANGED <<options, sanitizer, tallies,
                   n_playlists, pi, existing_playlists, playlist_locals, ti,
                   video_id, attempt, playlist_counters, track_counters, plog,
                   created_names, marks, deleted_ids, add_issued, any_failure>>

\* Lines 193-196: the next track and its query.
NextTrack ==
    /\ pc = "for_track"
    /\ playlist.has_tracks
    /\ ti < playlist.n_tracks
    /\ \E t \in TrackEntries :
         /\ t.has_name /\ t.has_artist
         /\ track' = t
    /\ tlog' = <<>>
    /\ tracks_read' = tracks_read + 1
    /\ track0' = [success |-> total_tracks_success, failed |-> total_tracks_failed,
                  skipped |-> total_tracks_skipped_duplicates]
    /\ pc' = "search"
    /\ UNCHANGED <<options, sanitizer, tallies,
                   exc, n_playlists, pi, existing_playlists, playlist_locals,
                   ti, video_id, attempt, playlist_counters, track_counters, plog,
                   created_names, entry0, deleted_ids, add_issued, any_failure>>

\* Line 198 raises: nothing catches it.
SearchFails ==
    /\ pc = "search"
    /\ tlog' = Append(tlog, Ev("search", 0, 0, "error", 0))
    /\ any_failure' = TRUE
    /\ pc' = "raised"
    /\ exc' = "search"
    /\ UNCHANGED <<options, sanitizer, tallies,
                   n_playlists, pi, existing_playlists, playlist_locals,
                   track_locals, playlist_counters, track_counters, plog,
                   created_names, marks, deleted_ids, add_issued>>

\* SearchEmpty without line 250.
SearchEmpty_NoCount ==
    /\ pc = "search"
    /\ tlog' = Append(tlog, Ev("search", 0, 0, "empty", 0))
    /\ ti' = ti + 1
    /\ pc' = "for_track"
    /\ UNCHANGED <<options, sanitizer, tallies,
                   exc, n_playlists, pi, existing_playlists, playlist_locals,
                   track, video_id, attempt, playlist_counters, track_counters,
                   plog, created_names, marks, deleted_ids, add_issued, any_failure>>

\* Lines 198-203, 248-250: no search result; the track counts as failed.
SearchEmpty ==
    /\ pc = "search"
    /\ tlog' = Append(tlog, Ev("search", 0, 0, "empty", 0))
    /\ total_tracks_failed' = total_tracks_failed + 1
    /\ ti' = ti + 1
    /\ pc' = "for_track"
    /\ UNCHANGED <<options, sanitizer, tallies,
                   exc, n_playlists, pi, existing_playlists, playlist_locals,
                   track, video_id, attempt, playlist_counters, total_tracks_success,
                   total_tracks_skipped_duplicates, plog, created_names, marks,
                   deleted_ids, add_issued, any_failure>>

\* DuplicateFound by the video id alone.
DuplicateFound_VideoIdOnly(cur, vid, trk) ==
    \E i \in 1..Len(cur) : cur[i].videoId = vid

\* Lines 207-212: some item of the baseline has the video id of the hit, or the
\* title of the track and its artists, joined, both compared in lower case.
DuplicateFound(cur, vid, trk) ==
    \E i \in 1..Len(cur) :
        \/ cur[i].videoId = vid
        \/ /\ Lower(cur[i].title) = Lower(trk.name)
           /\ Lower(Join([k \in 1..Len(cur[i].artists) |-> cur[i].artists[k].name]))
                = Lower(trk.artist)

\* SearchHit with the delay of line 247 taken before the continue of line 219.
SearchHit_DelayOnSkip ==
    /\ pc = "search"
    /\ \E vid \in VideoIds :
         /\ video_id' = vid
         /\ IF DuplicateFound(current_tracks, vid, track) /\ ~allow_duplicates
              THEN /\ tlog' = tlog \o << Ev("search", 0, vid, "hit", 0),
                                         Ev("delay", 0, 0, "ok", 0) >>
                   /\ total_tracks_skipped_duplicates' =
                        total_tracks_skipped_duplicates + 1
                   /\ ti' = ti + 1
                   /\ pc' = "for_track"
                   /\ UNCHANGED attempt
              ELSE /\ tlog' = Append(tlog, Ev("search", 0, vid, "hit", 0))
                   /\ attempt' = 0
                   /\ pc' = "retry"
                   /\ UNCHANGED <<ti, total_tracks_skipped_duplicates>>
    /\ UNCHANGED <<options, sanitizer, tallies,
                   exc, n_playlists, pi, existing_playlists, playlist_locals,
                   track, playlist_counters, total_tracks_success, total_tracks_failed,
                   plog, created_names, marks, deleted_ids, add_issued, any_failure>>

\* Lines 198-219: the first search result; a duplicate is skipped (continue),
\* unless duplicates are allowed, and anything else goes to the loop of 222.
SearchHit ==
    /\ pc = "search"
    /\ \E vid \in VideoIds :
         /\ video_id' = vid
         /\ tlog' = Append(tlog, Ev("search", 0, vid, "hit", 0))
    /\ IF DuplicateFound(current_tracks, video_id', track) /\ ~allow_duplicates
         THEN /\ total_tracks_skipped_duplicates' = total_tracks_skipped_duplicates + 1
              /\ ti' = ti + 1
              /\ pc' = "for_track"
              /\ UNCHANGED attempt
         ELSE /\ attempt' = 0
              /\ pc' = "retry"
              /\ UNCHANGED <<ti, total_tracks_skipped_duplicates>>
    /\ UNCHANGED <<options, sanitizer, tallies,
                   exc, n_playlists, pi, existing_playlists, playlist_locals,
                   track, playlist_counters, total_tracks_success, total_tracks_failed,
                   plog, created_names, marks, deleted_ids, add_issued, any_failure>>

\* AddOk with the inserted track appended to the baseline.
AddOk_RefreshesBaseline ==
    /\ pc = "retry"
    /\ attempt < api_max_retries
    /\ tlog' = tlog \o << Ev("add", playlist_id, video_id, "ok", 0),
                          Ev("delay", 0, 0, "ok", 0) >>
    /\ add_issued' = TRUE
    /\ total_tracks_success' = total_tracks_success + 1
    /\ current_tracks' = Append(current_tracks,
                                [videoId |-> video_id, title |-> track.name,
                                 artists |-> << [name |-> track.artist] >>])
    /\ ti' = ti + 1
    /\ pc' = "for_track"
    /\ adds_ok' = adds_ok + 1
    /\ entry_added' = Append(entry_added, video_id)
    /\ UNCHANGED <<options, sanitizer, skipped_entries, tracks_due, fetched,
                   exc, n_playlists, pi, existing_playlists, playlist, name,
                   existing, playlist_id, track, video_id, attempt,
                   playlist_counters, total_tracks_failed,
                   total_tracks_skipped_duplicates, plog, created_names, marks,
                   deleted_ids, any_failure>>

\* Lines 222-230, 247: add_playlist_items succeeds; break, then the delay.
AddOk ==
    /\ pc = "retry"
    /\ attempt < api_max_retries
    /\ tlog' = tlog \o << Ev("add", playlist_id, video_id, "ok", 0),
                          Ev("delay", 0, 0, "ok", 0) >>
    /\ add_issued' = TRUE
    /\ total_tracks_success' = total_tracks_success + 1
    /\ ti' = ti + 1
    /\ pc' = "for_track"
    /\ adds_ok' = adds_ok + 1
    /\ entry_added' = Append(entry_added, video_id)
    /\ UNCHANGED <<options, sanitizer, skipped_entries, tracks_due, fetched,
                   exc, n_playlists, pi, existing_playlists, playlist_locals,
                   track, video_id, attempt, playlist_counters, total_tracks_failed,
                   total_tracks_skipped_duplicates, plog, created_names, marks,
                   deleted_ids, any_failure>>

\* Retryable with the last attempt retried too.
Retryable_LastToo(is409, att, max) == is409 /\ att < max

\* Retryable whatever the exception says.
Retryable_AnyError(is409, att, max) == att < max - 1

\* Line 232: a failed attempt is retried when the message of the exception
\* holds "409" and this is not the last attempt.
Retryable(is409, att, max) == is409 /\ att < max - 1

\* Backoff with 2 * attempt for 2 ** attempt.
Backoff_Linear(att) == 2 * att

\* Line 233
Backoff(att) == 2 ^ att

\* AddFails without line 244.
AddFails_NoCount ==
    /\ pc = "retry"
    /\ attempt < api_max_retries
    /\ add_issued' = TRUE
    /\ any_failure' = TRUE
    /\ \E is409 \in BOOLEAN :
         IF Retryable(is409, attempt, api_max_retries)
           THEN /\ tlog' = tlog \o << Ev("add", playlist_id, video_id,
                                         IF is409 THEN "409" ELSE "error", 0),
                                      Ev("backoff", 0, 0, "ok", Backoff(attempt)) >>
                /\ attempt' = attempt + 1
                /\ UNCHANGED <<pc, ti, total_tracks_failed>>
           ELSE /\ tlog' = tlog \o << Ev("add", playlist_id, video_id,
                                         IF is409 THEN "409" ELSE "error", 0),
                                      Ev("delay", 0, 0, "ok", 0) >>
                /\ UNCHANGED total_tracks_failed
                /\ ti' = ti + 1
                /\ pc' = "for_track"
                /\ UNCHANGED attempt
    /\ UNCHANGED <<options, sanitizer, tallies,
                   exc, n_playlists, pi, existing_playlists, playlist_locals,
                   track, video_id, playlist_counters, total_tracks_success,
                   total_tracks_skipped_duplicates, plog, created_names, marks,
                   deleted_ids>>

\* Lines 227, 231-247: add_playlist_items raises; either the backoff and the
\* next attempt, or the track counts as failed, break, then the delay.
AddFails ==
    /\ pc = "retry"
    /\ attempt < api_max_retries
    /\ add_issued' = TRUE
    /\ any_failure' = TRUE
    /\ \E is409 \in BOOLEAN :
         IF Retryable(is409, attempt, api_max_retries)
           THEN /\ tlog' = tlog \o << Ev("add", playlist_id, video_id,
                                         IF is409 THEN "409" ELSE "error", 0),
                                      Ev("backoff", 0, 0, "ok", Backoff(attempt)) >>
                /\ attempt' = attempt + 1
                /\ UNCHANGED <<pc, ti, total_tracks_failed>>
           ELSE /\ tlog' = tlog \o << Ev("add", playlist_id, video_id,
                                         IF is409 THEN "409" ELSE "error", 0),
                                      Ev("delay", 0, 0, "ok", 0) >>
                /\ total_tracks_failed' = total_tracks_failed + 1
                /\ ti' = ti + 1
                /\ pc' = "for_track"
                /\ UNCHANGED attempt
    /\ UNCHANGED <<options, sanitizer, tallies,
                   exc, n_playlists, pi, existing_playlists, playlist_locals,
                   track, video_id, playlist_counters, total_tracks_success,
                   total_tracks_skipped_duplicates, plog, created_names, marks,
                   deleted_ids>>

\* Lines 222, 247: range(api_max_retries) gives no (further) attempt; the loop
\* ends without a break, then the delay.
RetriesExhausted ==
    /\ pc = "retry"
    /\ ~(attempt < api_max_retries)
    /\ tlog' = Append(tlog, Ev("delay", 0, 0, "ok", 0))
    /\ ti' = ti + 1
    /\ pc' = "for_track"
    /\ UNCHANGED <<options, sanitizer, tallies,
                   exc, n_playlists, pi, existing_playlists, playlist_locals,
                   track, video_id, attempt, playlist_counters, track_counters, plog,
                   created_names, marks, deleted_ids, add_issued, any_failure>>

Next ==
    \/ CheckPlaylistsFile
    \/ InitClient
    \/ InitClientFails
    \/ Load
    \/ LoadFails
    \/ GetLibraryPlaylists
    \/ GetLibraryPlaylistsFails
    \/ Return
    \/ PlaylistNameKeyError
    \/ Reconcile
    \/ DeleteOk
    \/ DeleteFails
    \/ CreateOk
    \/ CreateFails
    \/ GetPlaylist
    \/ GetPlaylistFails
    \/ TracksKeyError
    \/ EndOfTracks
    \/ TrackKeyError
    \/ NextTrack
    \/ SearchFails
    \/ SearchEmpty
    \/ SearchHit
    \/ AddOk
    \/ AddFails
    \/ RetriesExhausted

Spec == Init /\ [][Next]_vars

\* ------------------------------------------------ sanitize_playlist_name()
\* The argument of sanitize_playlist_name: a letter of each case, a digit, the
\* space, a control character (Cc), symbols of categories Sc, Sm and Sk, and
\* the nine characters of the class of line 121.
Alphabet ==
    {"a", "A", "1", " ", "\t", "$", "+", "^",
     "\\", "/", "*", "?", ":", "\"", "<", ">", "|"}

BoundedStrings == UNION { [1..n -> Alphabet] : n \in 0..MaxLen }

\* The function is called on any bounded string; the importer does not run.
SanitizeInit ==
    /\ raw_name \in BoundedStrings
    /\ sanitized = <<>>
    /\ resanitized = <<>>
    /\ pc = "sanitize"
    /\ file_state = "ok"
    /\ allow_duplicates = FALSE
    /\ delete_if_exists = FALSE
    /\ api_max_retries = 3
    /\ exc = "none"
    /\ n_playlists = 0
    /\ pi = 0
    /\ playlist = NoPlaylist
    /\ existing_playlists = <<>>
    /\ name = <<>>
    /\ existing = NoneRef
    /\ playlist_id = NoId
    /\ current_tracks = <<>>
    /\ ti = 0
    /\ track = NoTrack
    /\ video_id = 0
    /\ attempt = 0
    /\ total_playlists_created = 0
    /\ total_playlists_existing = 0
    /\ total_playlists_deleted = 0
    /\ total_tracks_success = 0
    /\ total_tracks_failed = 0
    /\ total_tracks_skipped_duplicates = 0
    /\ plog = <<>>
    /\ tlog = <<>>
    /\ created_names = <<>>
    /\ deleted_ids = <<>>
    /\ add_issued = FALSE
    /\ any_failure = FALSE
    /\ tracks_read = 0
    /\ entry0 = [pi |-> 0, created |-> 0, existing |-> 0, deleted |-> 0,
                 success |-> 0, failed |-> 0, skipped |-> 0]
    /\ track0 = [success |-> 0, failed |-> 0, skipped |-> 0]
    /\ skipped_entries = 0
    /\ tracks_due = 0
    /\ adds_ok = 0
    /\ fetched = <<>>
    /\ entry_added = <<>>

importer == <<options, exc, n_playlists, pi, existing_playlists, playlist_locals,
              track_locals, playlist_counters, track_counters, history>>

\* Lines 102-122, on the argument.
SanitizeOnce ==
    /\ pc = "sanitize"
    /\ sanitized' = sanitize_playlist_name(raw_name)
    /\ pc' = "sanitized"
    /\ UNCHANGED <<importer, raw_name, resanitized>>

\* Lines 102-122, on the result of the first call.
SanitizeTwice ==
    /\ pc = "sanitized"
    /\ resanitized' = sanitize_playlist_name(sanitized)
    /\ pc' = "resanitized"
    /\ UNCHANGED <<importer, raw_name, sanitized>>

SanitizeNext == SanitizeOnce \/ SanitizeTwice

SanitizeSpec == SanitizeInit /\ [][SanitizeNext]_vars


\* ========================================================= checked properties
\* Helpers of the properties below.
CountOp(log, op) == Len(SelectSeq(log, LAMBDA e : e.op = op))
HasOp(log, op) == \E i \in 1..Len(log) : log[i].op = op
AddsGoTo(log, id) == \A i \in 1..Len(log) : log[i].op = "add" => log[i].id = id
AddSucceeded(log) == \E i \in 1..Len(log) : log[i].op = "add" /\ log[i].res = "ok"

\* An entry of the export file is being processed.
EntryCurrent == playlist # NoPlaylist /\ playlist.has_name

\* The ids of the playlists of the snapshot whose title equals, case-
\* insensitively, the sanitized name of the entry.
MatchingIds ==
    { existing_playlists[i].playlistId : i \in
        { j \in 1..Len(existing_playlists) :
            Lower(existing_playlists[j].title)
              = Lower(sanitize_playlist_name(playlist.playlist_name)) } }
NameMatchesSnapshot == MatchingIds # {}

\* The processing of a track has just ended; tlog holds its calls and sleeps.
TrackDone == pc = "for_track" /\ tlog # <<>>

\* The outcome of that track, read off the counters.
Outcome ==
    IF total_tracks_success = track0.success + 1 THEN "Added"
    ELSE IF total_tracks_skipped_duplicates = track0.skipped + 1 THEN "SkippedDuplicate"
    ELSE IF total_tracks_failed = track0.failed + 1
      THEN (IF HasOp(tlog, "add") THEN "Failed" ELSE "NotFound")
    ELSE "None"

\* ------------------------------------------------------------------------ C1
\* C1: once the import loop has started, no failure of a single remote call
\* (delete_playlist, create_playlist, get_playlist, search, add_playlist_items)
\* aborts the run: the run never ends with the exception of such a call.
C1_NoRemoteFailureAborts ==
    ~(pc = "raised" /\ exc \in {"delete_playlist", "create_playlist", "get_playlist",
                                "search", "add_playlist_items"})

\* ------------------------------------------------------------------------ C2
\* C2: for every track that reaches the insertion step (a search hit that is
\* not skipped as a duplicate) and every api_max_retries >= 0,
\* add_playlist_items is called at most api_max_retries times, and if no call
\* succeeds total_tracks_failed grows by exactly one, so the track is in one of
\* the three track counters.
C2_InsertionBoundedAndCounted ==
    (TrackDone /\ tlog[1].res = "hit" /\ Outcome # "SkippedDuplicate") =>
        /\ CountOp(tlog, "add") <= api_max_retries
        /\ ~AddSucceeded(tlog) => total_tracks_failed = track0.failed + 1
        /\ Outcome \in {"Added", "Failed"}

\* ------------------------------------------------------------------------ C3
\* C3: in one run create_playlist is called at most once per sanitized name,
\* names compared case-insensitively.
C3_CreateOncePerName ==
    \A i, j \in 1..Len(created_names) :
        created_names[i] = created_names[j] => i = j

\* ------------------------------------------------------------------------ C4
\* C4 as stated: a delete_playlist call for an entry (issued when its name
\* matches the snapshot and delete_if_exists is set) is followed by a
\* create_playlist call for that entry.
C4_DeleteAlwaysFollowedByCreate ==
    \A i \in 1..Len(plog) :
        plog[i].op = "delete" =>
            \/ pc = "create"
            \/ \E j \in (i + 1)..Len(plog) : plog[j].op = "create"

\* C4, amended: when the sanitized name of an entry matches a title of the
\* snapshot case-insensitively and delete_if_exists is set, exactly one
\* delete_playlist call is issued for the entry, on an id of the snapshot; if it
\* succeeds, exactly one create_playlist call follows it and the tracks are
\* inserted into the id that call returned; if it fails, no create_playlist
\* call is issued for the entry.
C4_DeleteThenCreate ==
    /\ (EntryCurrent /\ NameMatchesSnapshot /\ delete_if_exists) =>
         /\ CountOp(plog, "delete") = (IF pc = "delete" THEN 0 ELSE 1)
         /\ CountOp(plog, "create") <= 1
         /\ pc # "delete" =>
              /\ Len(plog) >= 1
              /\ plog[1].op = "delete" /\ plog[1].res = "ok"
              /\ plog[1].id \in MatchingIds
         /\ pc \in {"get_playlist", "for_track", "search", "retry"} =>
              /\ Len(plog) >= 2
              /\ plog[2].op = "create" /\ plog[2].res = "ok"
              /\ playlist_id = plog[2].id
              /\ playlist_id \notin SnapshotIds
         /\ HasOp(plog, "create") => plog[2].op = "create"
         /\ HasOp(tlog, "add") => (Len(plog) >= 2 /\ AddsGoTo(tlog, plog[2].id))
    /\ (\E i \in 1..Len(plog) : plog[i].op = "delete" /\ plog[i].res = "error") =>
         /\ Len(plog) = 1
         /\ pc \notin {"delete", "create", "get_playlist", "for_track", "search", "retry"}

C4_Witness ==
    /\ EntryCurrent /\ NameMatchesSnapshot /\ delete_if_exists
    /\ Len(plog) >= 2
    /\ plog[1].op = "delete" /\ plog[2].op = "create"
    /\ \E i \in 1..Len(tlog) :
         tlog[i].op = "add" /\ tlog[i].res = "ok" /\ tlog[i].id = plog[2].id

\* ------------------------------------------------------------------------ C5
\* C5: when the sanitized name of an entry matches a title of the snapshot
\* case-insensitively and delete_if_exists is not set, no create_playlist and no
\* delete_playlist call is issued for the entry, the id of the matching playlist
\* is the target of all its insertions, total_playlists_existing grows by
\* exactly one, and total_playlists_created and total_playlists_deleted do not
\* change.
C5_ReuseExisting ==
    (EntryCurrent /\ NameMatchesSnapshot /\ ~delete_if_exists) =>
        /\ pc \notin {"delete", "create"}
        /\ ~HasOp(plog, "delete") /\ ~HasOp(plog, "create")
        /\ playlist_id \in MatchingIds
        /\ AddsGoTo(tlog, playlist_id)
        /\ total_playlists_existing = entry0.existing + 1
        /\ total_playlists_created = entry0.created
        /\ total_playlists_deleted = entry0.deleted

C5_Witness ==
    /\ EntryCurrent /\ NameMatchesSnapshot /\ ~delete_if_exists
    /\ \A i \in 1..Len(existing_playlists) : existing_playlists[i].title # name
    /\ total_playlists_existing = 1
    /\ \E i \in 1..Len(tlog) :
         tlog[i].op = "add" /\ tlog[i].res = "ok" /\ tlog[i].id \in MatchingIds

\* ------------------------------------------------------------------------ C6
\* C6: when delete_playlist fails under delete_if_exists, the entry is skipped:
\* no create_playlist, get_playlist, search or add_playlist_items call is issued
\* for it, none of the six counters changes for it, and the run goes on with
\* the next entry.
C6_DeleteFailureSkipsEntry ==
    (\E i \in 1..Len(plog) : plog[i].op = "delete" /\ plog[i].res = "error") =>
        /\ plog = << Ev("delete", plog[1].id, 0, "error", 0) >>
        /\ tlog = <<>>
        /\ pc \notin {"delete", "create", "get_playlist", "for_track", "search", "retry"}
        /\ pi = entry0.pi + 1
        /\ total_playlists_created = entry0.created
        /\ total_playlists_existing = entry0.existing
        /\ total_playlists_deleted = entry0.deleted
        /\ total_tracks_success = entry0.success
        /\ total_tracks_failed = entry0.failed
        /\ total_tracks_skipped_duplicates = entry0.skipped
        /\ pc = "for_playlist" => (ENABLED Return \/ ENABLED Reconcile)

C6_Witness ==
    /\ delete_if_exists
    /\ pc = "for_playlist"
    /\ pi < n_playlists
    /\ Len(plog) = 1 /\ plog[1].op = "delete" /\ plog[1].res = "error"

\* ------------------------------------------------------------------------ C7
\* C7: for an export file with N entries, an empty snapshot and
\* delete_if_exists not set, a run in which no remote call fails issues exactly
\* N create_playlist calls and no delete_playlist call, and returns with
\* total_playlists_created = N, total_playlists_existing = 0 and
\* total_playlists_deleted = 0.
C7_EmptyLibraryCreatesAll ==
    (pc = "returned" /\ existing_playlists = <<>> /\ ~delete_if_exists /\ ~any_failure) =>
        /\ Len(created_names) = n_playlists
        /\ deleted_ids = <<>>
        /\ total_playlists_created = n_playlists
        /\ total_playlists_existing = 0
        /\ total_playlists_deleted = 0

C7_Witness ==
    /\ pc = "returned" /\ existing_playlists = <<>> /\ ~delete_if_exists /\ ~any_failure
    /\ n_playlists = MaxPlaylists
    /\ total_playlists_created = MaxPlaylists

\* ------------------------------------------------------------------------ C8
\* C8 as stated: after a track whose outcome is Added, SkippedDuplicate or
\* Failed the run sleeps api_delay exactly once before the next search; after
\* NotFound it does not sleep.
C8_DelayAfterEveryOutcomeButNotFound ==
    TrackDone =>
        /\ Outcome \in {"Added", "SkippedDuplicate", "Failed"} => CountOp(tlog, "delay") = 1
        /\ Outcome = "NotFound" => CountOp(tlog, "delay") = 0

\* C8, amended: after a track for which an insertion was attempted (outcome
\* Added or Failed) the run sleeps api_delay exactly once, after the last
\* attempt and before the next search; after SkippedDuplicate and after
\* NotFound it does not sleep.
C8_DelayAfterInsertionOnly ==
    /\ TrackDone =>
         /\ Outcome \in {"Added", "Failed"} =>
              /\ CountOp(tlog, "delay") = 1
              /\ Len(tlog) >= 3
              /\ tlog[Len(tlog)].op = "delay"
              /\ tlog[Len(tlog) - 1].op = "add"
         /\ Outcome \in {"SkippedDuplicate", "NotFound"} => CountOp(tlog, "delay") = 0
    /\ pc \in {"search", "retry"} => CountOp(tlog, "delay") = 0

C8_Witness ==
    /\ TrackDone
    /\ Outcome = "Added"
    /\ ti < playlist.n_tracks
    /\ tlog[Len(tlog)].op = "delay"

\* ------------------------------------------------------------------------ C9
\* C9: if the export file is missing, unreadable, not JSON, or has an entry
\* without playlist_name or tracks or a track without name or artist, the run
\* aborts without any create_playlist, delete_playlist or add_playlist_items
\* call having been issued.
C9_InputErrorBeforeAnyMutation ==
    ( \/ pc = "exit1" /\ file_state = "missing"
      \/ pc = "raised" /\ exc \in {"load", "KeyError"} ) =>
        /\ created_names = <<>>
        /\ deleted_ids = <<>>
        /\ ~add_issued

\* ----------------------------------------------------------------------- C10
\* The duplicate test as C10 states it, for the track being processed and the
\* first search result: some item of the baseline has the video id of the
\* result, or the title of the track and its artists, comma-joined, both
\* compared case-insensitively.
C10_Duplicate ==
    \E i \in 1..Len(current_tracks) :
        LET item == current_tracks[i]
            names == [k \in 1..Len(item.artists) |-> item.artists[k].name]
        IN  \/ item.videoId = tlog[1].vid
            \/ /\ Lower(item.title) = Lower(track.name)
               /\ Lower(Join(names)) = Lower(track.artist)

AddEvents == SelectSeq(tlog, LAMBDA e : e.op = "add")

\* C11: when every insertion attempt of a track fails with a 409 error and
\* api_max_retries = n >= 1, the track ends Failed (total_tracks_failed grows by
\* one, total_tracks_success does not change) after exactly n
\* add_playlist_items calls and exactly n - 1 backoff sleeps, none of them after
\* the last attempt.
C11_AllConflictsFailAfterN ==
    (TrackDone /\ api_max_retries >= 1 /\ AddEvents # <<>>
       /\ \A i \in 1..Len(AddEvents) : AddEvents[i].res = "409") =>
        /\ total_tracks_failed = track0.failed + 1
        /\ total_tracks_success = track0.success
        /\ Len(AddEvents) = api_max_retries
        /\ CountOp(tlog, "backoff") = api_max_retries - 1
        /\ \A i \in 1..Len(tlog) :
             tlog[i].op = "backoff" => \E j \in (i + 1)..Len(tlog) : tlog[j].op = "add"

C11_Witness ==
    /\ TrackDone /\ api_max_retries = 3
    /\ Len(AddEvents) = 3
    /\ \A i \in 1..Len(AddEvents) : AddEvents[i].res = "409"
    /\ CountOp(tlog, "backoff") = 2
    /\ total_tracks_failed = track0.failed + 1

\* ----------------------------------------------------------------------- C12
\* C12: when the insertion of a track fails with a 409 error k times and then
\* succeeds, k < api_max_retries, the track ends Added (total_tracks_success
\* grows by one, total_tracks_failed does not change) after exactly k + 1 calls
\* and exactly k backoff sleeps of 2^0, ..., 2^(k-1) seconds in that order, each
\* between the failed attempt and the next one.
C12_ConflictsThenSuccess ==
    (TrackDone /\ AddEvents # <<>> /\ AddEvents[Len(AddEvents)].res = "ok"
       /\ \A i \in 1..(Len(AddEvents) - 1) : AddEvents[i].res = "409") =>
        LET k == Len(AddEvents) - 1
        IN  /\ k < api_max_retries
            /\ total_tracks_success = track0.success + 1
            /\ total_tracks_failed = track0.failed
            /\ CountOp(tlog, "backoff") = k
            /\ Len(tlog) = 2 * k + 3
            /\ \A i \in 1..k :
                 /\ tlog[2 * i].op = "add" /\ tlog[2 * i].res = "409"
                 /\ tlog[2 * i + 1].op = "backoff" /\ tlog[2 * i + 1].secs = 2 ^ (i - 1)
            /\ tlog[2 * k + 2].op = "add" /\ tlog[2 * k + 2].res = "ok"

C12_Witness ==
    /\ TrackDone /\ api_max_retries = 3
    /\ Len(AddEvents) = 3
    /\ AddEvents[1].res = "409" /\ AddEvents[2].res = "409" /\ AddEvents[3].res = "ok"
    /\ total_tracks_success = track0.success + 1
    /\ SelectSeq(tlog, LAMBDA e : e.op = "backoff")
         = << Ev("backoff", 0, 0, "ok", 1), Ev("backoff", 0, 0, "ok", 2) >>

\* ----------------------------------------------------------------------- C13
\* C13: when an insertion attempt fails with an error that is not a 409 error,
\* it is the last attempt for the track: no backoff sleep and no further
\* add_playlist_items call follows, total_tracks_failed grows by exactly one,
\* and processing moves on to the next track of the same entry.
C13_OtherErrorIsTerminal ==
    \A i \in 1..Len(tlog) :
        (tlog[i].op = "add" /\ tlog[i].res = "error") =>
            /\ i = Len(tlog) - 1
            /\ tlog[Len(tlog)].op = "delay"
            /\ pc = "for_track"
            /\ total_tracks_failed = track0.failed + 1
            /\ total_tracks_success = track0.success
            /\ total_tracks_skipped_duplicates = track0.skipped
            /\ EntryCurrent /\ pi = entry0.pi
            /\ ENABLED NextTrack \/ ENABLED TrackKeyError \/ ENABLED EndOfTracks

C13_Witness ==
    /\ TrackDone /\ api_max_retries = 3
    /\ ti < playlist.n_tracks
    /\ Len(AddEvents) = 2
    /\ AddEvents[1].res = "409" /\ AddEvents[2].res = "error"

\* ----------------------------------------------------------------------- C14
\* C14: for a track whose search returns no result, no add_playlist_items call
\* is issued, total_tracks_failed grows by exactly one, and
\* total_tracks_success and total_tracks_skipped_duplicates do not change.
C14_NotFoundCountsAsFailed ==
    (tlog # <<>> /\ tlog[1].res = "empty") =>
        /\ tlog = << Ev("search", 0, 0, "empty", 0) >>
        /\ pc = "for_track"
        /\ total_tracks_failed = track0.failed + 1
        /\ total_tracks_success = track0.success
        /\ total_tracks_skipped_duplicates = track0.skipped

C14_Witness ==
    /\ TrackDone
    /\ tlog[1].res = "empty"
    /\ total_tracks_failed = 1

\* ----------------------------------------------------------------------- C15
\* The characters sanitize_playlist_name removes wherever they stand.
Stripped(c) == Category(c)[1] \in {"C", "S"} \/ InvalidFilenameChar(c)

\* C15: over every string of the bounded alphabet, sanitizing the result of
\* sanitize_playlist_name again gives the same result, the result holds no
\* character of category C* or S* and none of \ / * ? : " < > |, and it neither
\* begins nor ends with whitespace.
C15_SanitizeIdempotent ==
    /\ pc \in {"sanitized", "resanitized"} =>
         /\ \A i \in 1..Len(sanitized) : ~Stripped(sanitized[i])
         /\ sanitized # <<>> =>
              ~IsSpace(sanitized[1]) /\ ~IsSpace(sanitized[Len(sanitized)])
    /\ pc = "resanitized" => resanitized = sanitized

C15_Witness ==
    /\ pc = "resanitized"
    /\ raw_name = <<" ", "$", "a">>
    /\ sanitized = <<"a">>
    /\ resanitized = <<"a">>

\* ----------------------------------------------------------------------- C16
\* The track being processed is in what get_playlist gave for the entry, by the
\* video id of its first search result or by title and artists.
InFetched ==
    \E i \in 1..Len(fetched) :
        LET item == fetched[i]
            names == [k \in 1..Len(item.artists) |-> item.artists[k].name]
        IN  \/ item.videoId = tlog[1].vid
            \/ /\ Lower(item.title) = Lower(track.name)
               /\ Lower(Join(names)) = Lower(track.artist)

BaselineFailed ==
    /\ plog # <<>>
    /\ plog[Len(plog)].op = "get_playlist"
    /\ plog[Len(plog)].res = "error"

CreatedIds == { 3 + k : k \in 0..(Len(created_names) - 1) }

\* C18: every delete_playlist call is on an id of the snapshot taken at the
\* start of the run, which is never refreshed; a playlist created in the run is
\* never deleted in it, also when two entries sanitize to the same name and
\* delete_if_exists is true (the second deletes the id of the snapshot again).
C18_DeleteOnlySnapshotIds ==
    /\ existing_playlists \in LibraryPlaylists
    /\ \A i \in 1..Len(deleted_ids) :
         /\ deleted_ids[i] \in SnapshotIds
         /\ \E k \in 1..Len(existing_playlists) :
              existing_playlists[k].playlistId = deleted_ids[i]
         /\ deleted_ids[i] \notin CreatedIds
    /\ pc = "delete" => playlist_id \in SnapshotIds \ CreatedIds

C18_Witness ==
    /\ delete_if_exists
    /\ deleted_ids = <<1, 1>>
    /\ total_playlists_deleted = 2
    /\ CreatedIds = {3, 4}
    /\ pc = "returned"

\* ----------------------------------------------------------------------- C19
\* C19: at the end of every run that returns, total_playlists_created +
\* total_playlists_existing + the number of entries skipped because their
\* delete failed is the number of entries of the export file;
\* total_playlists_deleted <= total_playlists_created; total_playlists_existing
\* is positive only without delete_if_exists and total_playlists_deleted only
\* with it.
C19_PlaylistCountersAddUp ==
    pc = "returned" =>
        /\ total_playlists_created + total_playlists_existing + skipped_entries
             = n_playlists
        /\ total_playlists_deleted <= total_playlists_created
        /\ total_playlists_existing > 0 => ~delete_if_exists
        /\ total_playlists_deleted > 0 => delete_if_exists

C19_Witness ==
    /\ pc = "returned"
    /\ n_playlists = 2
    /\ skipped_entries = 1
    /\ total_playlists_deleted = 1
    /\ total_playlists_created = 1

\* ----------------------------------------------------------------------- C20
\* C20: with api_max_retries >= 1 every track of every entry that is not
\* skipped increments exactly one of total_tracks_success,
\* total_tracks_skipped_duplicates and total_tracks_failed, so at the end of a
\* run that returns their sum is the number of tracks of those entries, and
\* total_tracks_success is the number of add_playlist_items calls that
\* succeeded.
C20_TrackCountersAddUp ==
    api_max_retries >= 1 =>
        /\ TrackDone =>
             /\ total_tracks_success - track0.success \in {0, 1}
             /\ total_tracks_skipped_duplicates - track0.skipped \in {0, 1}
             /\ total_tracks_failed - track0.failed \in {0, 1}
             /\ total_tracks_success + total_tracks_skipped_duplicates
                  + total_tracks_failed
                  = track0.success + track0.skipped + track0.failed + 1
        /\ pc = "returned" =>
             /\ total_tracks_success + total_tracks_skipped_duplicates
                  + total_tracks_failed = tracks_due
             /\ tracks_due = tracks_read
             /\ total_tracks_success = adds_ok

C20_Witness ==
    /\ pc = "returned"
    /\ api_max_retries >= 1
    /\ n_playlists = 2
    /\ skipped_entries = 1
    /\ tracks_due = 2
    /\ total_tracks_success = 1
    /\ total_tracks_failed = 1

====
